---- MODULE Spec2Model ----
(***************************************************************************)
(* Model of the CS2 anti-cheat analyzer (src/analyzer.py):                 *)
(*   build_rounds              -> BuildRounds        (SpecRounds)          *)
(*   compute_engagements       -> ComputeEngagements (SpecEng)             *)
(*   compute_anticheat_metrics -> ComputeMetrics     (SpecMetrics), and    *)
(*                                its threshold rule table alone over      *)
(*                                drawn signal records, ScoreRules         *)
(*                                (SpecScore)                              *)
(* Each function is a pure function of the event tables and of the trace,  *)
(* so each specification draws the tables in Init and applies the function *)
(* in one action.  parse_demo_anticheat as a whole is SpecRun; the result   *)
(* cache (src/cache.py), with its calls interleaved step by step, is       *)
(* SpecCache.                                                              *)
(*                                                                         *)
(* Nullable values (Python None) are sequences: <<>> is None, <<x>> is x.  *)
(* Divisions are exact (rational) and compared by cross-multiplication.    *)
(***************************************************************************)
EXTENDS Integers, Sequences, FiniteSets, TLC

VARIABLES
    pc,             \* position of the run
    tick_rate,      \* detect_tickrate's result, 64 or 128
    freeze_end_df,  \* round_freeze_end events: sequence of ticks, file order
    ended_df,       \* round_officially_ended events: sequence of ticks
    score_data,     \* outcome of the score query of build_rounds
    rounds,         \* build_rounds' result
    hurts_df,       \* player_hurt events: sequence of rows, file order
    fires_df,       \* weapon_fire events: sequence of rows, file order
    trace,          \* what the Trace Reader holds per player and tick
    contacts,       \* compute_engagements' contacts
    engagements,    \* compute_engagements' result, in contact order
    kills_df,       \* player_death events: sequence of rows, file order
    bullets_df,     \* fire_bullets events: sequence of rows, file order
    angle_data,     \* outcome of the pitch/yaw query of the aim-snap signal
    pose_data,      \* outcome of the bulk pose query of compute_engagements
    team_data,      \* outcome of the team query of extract_players
    anticheat,      \* compute_anticheat_metrics' result: steam id -> profile
    result,         \* what parse_demo_anticheat returns, None before
    sig,            \* the signal record of one player (scorer input)
    suspicion,      \* suspicion_score of that player
    flags,          \* flags of that player, in the order appended
    cache_file,     \* the cache entry of one demo: None, or its text
    calls,          \* per caller: where it is in get_cached / put_cache
    calls_made      \* number of cache calls started so far

vars == <<pc, tick_rate, freeze_end_df, ended_df, score_data, rounds,
          hurts_df, fires_df, trace, contacts, engagements,
          kills_df, bullets_df, angle_data, pose_data, team_data,
          anticheat, result, sig, suspicion, flags, cache_file, calls,
          calls_made>>
cacheVars == <<cache_file, calls, calls_made>>
analysisVars == <<pc, tick_rate, freeze_end_df, ended_df, score_data, rounds,
                  hurts_df, fires_df, trace, contacts, engagements,
                  kills_df, bullets_df, angle_data, pose_data, team_data,
                  anticheat, result, sig, suspicion, flags>>

None == <<>>
Some(x) == <<x>>
IsNone(v) == v = <<>>
Val(v) == v[1]

NoSignal ==
    [avg_reaction |-> None, min_reaction |-> None, kills |-> 0, hs |-> 0, smoke |-> 0,
     bullets |-> 0, hits |-> 0, max_snap |-> None, hs_variance |-> None]

Min(a, b) == IF a <= b THEN a ELSE b
Max(a, b) == IF a >= b THEN a ELSE b
\* start_tick <= tick <= end_tick
InRound(tick, r) == tick >= r.start_tick /\ tick <= r.end_tick

SeqsUpTo(S, n) == UNION { [1..k -> S] : k \in 0..n }
Range(s) == { s[i] : i \in DOMAIN s }

\* sorted(xs): insertion sort, duplicates kept
RECURSIVE InsertSorted(_, _)
InsertSorted(x, s) ==
    IF s = <<>> THEN <<x>>
    ELSE IF x <= Head(s) THEN <<x>> \o s
    ELSE <<Head(s)>> \o InsertSorted(x, Tail(s))
RECURSIVE SortedFrom(_, _)
SortedFrom(s, i) ==
    IF i > Len(s) THEN <<>> ELSE InsertSorted(s[i], SortedFrom(s, i + 1))
\* mutant: the list left in file order
Sorted_Unsorted(s) == s
Sorted(s) == SortedFrom(s, 1)

\* sorted(set(xs)): ascending, duplicates dropped
RECURSIVE SetToSorted(_)
SetToSorted(S) ==
    IF S = {} THEN <<>>
    ELSE LET m == CHOOSE x \in S : \A y \in S : x <= y
         IN <<m>> \o SetToSorted(S \ {m})
SortedSet(s) == SetToSorted(Range(s))

(***************************************************************************)
(* build_rounds, analyzer.py 81-124                                        *)
(***************************************************************************)
OPEN_ROUND_TICKS == 20000

\* mutant: an end tick equal to the start tick accepted
FirstEndAfter_NotStrict(ended_ticks, start_tick) ==
    LET later == { i \in DOMAIN ended_ticks : ended_ticks[i] >= start_tick }
    IN IF later = {} THEN None
       ELSE Some(ended_ticks[CHOOSE i \in later : \A j \in later : i <= j])
\* 88-92: the first et of ended_ticks with et > start_tick, or None
FirstEndAfter(ended_ticks, start_tick) ==
    LET later == { i \in DOMAIN ended_ticks : ended_ticks[i] > start_tick }
    IN IF later = {} THEN None
       ELSE Some(ended_ticks[CHOOSE i \in later : \A j \in later : i <= j])

\* mutant: an open round made one tick longer
EndTick_OpenLonger(ended_ticks, start_tick) ==
    LET e == FirstEndAfter(ended_ticks, start_tick)
    IN IF IsNone(e) THEN start_tick + OPEN_ROUND_TICKS + 1 ELSE Val(e)
\* 88-94
EndTick(ended_ticks, start_tick) ==
    LET e == FirstEndAfter(ended_ticks, start_tick)
    IN IF IsNone(e) THEN start_tick + OPEN_ROUND_TICKS ELSE Val(e)

\* 102-122: the team_rounds_total samples one tick before each end.  The
\* query raises ("raises"), or returns rows: the rows of a tick are
\* ScoreRows(tick), none when the trace holds no sample there.
ScoreOutcomes == {"raises", "rows"}
ScoreRows(tick) ==
    IF tick % 2 = 1
    THEN { [team_num |-> 3, team_rounds_total |-> 1],
           [team_num |-> 3, team_rounds_total |-> 2],
           [team_num |-> 2, team_rounds_total |-> 1],
           [team_num |-> 1, team_rounds_total |-> 5] }
    ELSE {}
MaxOfTeam(rows, team) ==
    LET vs == { r.team_rounds_total : r \in { x \in rows : x.team_num = team } }
    IN IF vs = {} THEN 0 ELSE CHOOSE m \in vs : \A v \in vs : v <= m
CtScore(outcome, end_tick) ==
    IF outcome = "raises" THEN 0 ELSE MaxOfTeam(ScoreRows(end_tick - 1), 3)
TScore(outcome, end_tick) ==
    IF outcome = "raises" THEN 0 ELSE MaxOfTeam(ScoreRows(end_tick - 1), 2)

\* 83-124
build_rounds(freeze_df, end_df, outcome) ==
    LET freeze_ticks == Sorted(freeze_df)
        ended_ticks == SortedSet(end_df)
    IN [ i \in 1..Len(freeze_ticks) |->
           LET st == freeze_ticks[i]
               et == EndTick(ended_ticks, st)
           IN [round_num |-> i, start_tick |-> st, end_tick |-> et,
               ct_score |-> CtScore(outcome, et), t_score |-> TScore(outcome, et)] ]

BuildRounds ==
    /\ pc = "start"
    /\ rounds' = build_rounds(freeze_end_df, ended_df, score_data)
    /\ pc' = "rounds"
    /\ UNCHANGED cacheVars
    /\ UNCHANGED <<tick_rate, freeze_end_df, ended_df, score_data,
                   hurts_df, fires_df, trace, contacts, engagements,
                   kills_df, bullets_df, angle_data, pose_data, team_data,
                   anticheat, result, sig, suspicion, flags>>

(***************************************************************************)
(* The Trace Reader's per-tick table.  Two players have poses: "A" stands  *)
(* at the origin looking along +x (yaw 0), "B" stands at (100, 0, 0)       *)
(* looking back along -x (yaw 180), so each has the other in the centre of *)
(* the view.  trace[sid] changes that over the ticks lo..hi:               *)
(*   "steady"  nothing changes                                             *)
(*   "away"    the player looks the other way (yaw + 180)                  *)
(*   "dead"    is_alive is False                                           *)
(*   "absent"  the table holds no row of the player                        *)
(***************************************************************************)
Players == {"A", "B"}
TraceKinds == {"away", "dead", "absent"}
Steady == [kind |-> "steady", lo |-> 0, hi |-> 0]

BasePose(sid) ==
    IF sid = "A"
    THEN [x |-> 0, y |-> 0, z |-> 0, pitch |-> 0, yaw |-> 0, is_alive |-> TRUE]
    ELSE [x |-> 100, y |-> 0, z |-> 0, pitch |-> 0, yaw |-> 180, is_alive |-> TRUE]

\* the row of (sid, t) in the trace, None when there is none
TracePose(sid, t) ==
    LET o == trace[sid]
        b == BasePose(sid)
    IN IF o.kind = "steady" \/ t < o.lo \/ t > o.hi THEN Some(b)
       ELSE IF o.kind = "absent" THEN None
       ELSE IF o.kind = "dead" THEN Some([b EXCEPT !.is_alive = FALSE])
       ELSE Some([b EXCEPT !.yaw = (b.yaw + 180) % 360])

(***************************************************************************)
(* _angle_between_deg, analyzer.py 25-40, for pitch 0 and yaw a multiple   *)
(* of 90: the view vector is then integral.  angle <= half_deg is decided  *)
(* on the cosine: dot >= cos(half_deg), i.e. dot > 0 and                   *)
(* dot^2 >= cos^2(half_deg); dist < 1 gives 999 (never within).            *)
(***************************************************************************)
FOV_HALF_DEG == 40
EYE_HEIGHT == 64
\* cos^2(40 deg) = 0.5868..., in thousandths
Cos2Thousandths(deg) == IF deg = 40 THEN 587 ELSE 0
ViewX(yaw) == IF yaw = 0 THEN 1 ELSE IF yaw = 180 THEN -1 ELSE 0
ViewY(yaw) == IF yaw = 90 THEN 1 ELSE IF yaw = 270 THEN -1 ELSE 0

\* 249-253: angle <= FOV_HALF_DEG for attacker row a and victim row v
InFov(a, v) ==
    LET dx == v.x - a.x
        dy == v.y - a.y
        dz == (v.z + EYE_HEIGHT) - (a.z + EYE_HEIGHT)
        dist2 == dx * dx + dy * dy + dz * dz
        dot == ViewX(a.yaw) * dx + ViewY(a.yaw) * dy
    IN /\ dist2 >= 1
       /\ dot > 0
       /\ dot * dot * 1000 >= Cos2Thousandths(FOV_HALF_DEG) * dist2

(***************************************************************************)
(* compute_engagements, analyzer.py 156-282                                *)
(***************************************************************************)
LOOKBACK_TICKS == 192
LOOKBACK_STEP == 2

\* 163: int(LOOKBACK_TICKS * tick_rate / 64)
Lookback(rate) == (LOOKBACK_TICKS * rate) \div 64

\* str() of a steamid cell: a missing value prints as "None"
NullId == "<null>"
Str(id) == IF id = NullId THEN "None" ELSE id

\* round(x) of Python for x = num/den >= 0: halves go to the even neighbour
RoundHalfEven(num, den) ==
    LET q == num \div den
        r == num % den
    IN IF 2 * r < den THEN q
       ELSE IF 2 * r > den THEN q + 1
       ELSE IF q % 2 = 0 THEN q ELSE q + 1
\* 262, 268, 269: round((ticks / tick_rate) * 1000)
TicksToMs(ticks, rate) == RoundHalfEven(ticks * 1000, rate)

\* sort_values("tick") of the rows at the indices idx: ascending tick, file
\* order among equal ticks
RECURSIVE SortByTick(_, _)
SortByTick(df, idx) ==
    IF idx = {} THEN <<>>
    ELSE LET i == CHOOSE k \in idx :
                    \A j \in idx : df[k].tick < df[j].tick
                                   \/ (df[k].tick = df[j].tick /\ k <= j)
         IN <<df[i]>> \o SortByTick(df, idx \ {i})

\* mutant: the round's upper limit dropped
RoundHurts_NoEnd(r) ==
    SortByTick(hurts_df, { i \in DOMAIN hurts_df : hurts_df[i].tick >= r.start_tick })
\* 168-170
RoundHurts(r) ==
    SortByTick(hurts_df, { i \in DOMAIN hurts_df :
                             /\ hurts_df[i].tick >= r.start_tick
                             /\ hurts_df[i].tick <= r.end_tick })

\* 172-187: the walk over one round's rows; seen is seen_pairs
RECURSIVE RoundContacts(_, _, _, _)
RoundContacts(rows, i, seen, r) ==
    IF i > Len(rows) THEN <<>>
    ELSE LET attacker == Str(rows[i].attacker_steamid)
             victim == Str(rows[i].user_steamid)
             pair == <<attacker, victim>>
         IN IF attacker = "" \/ attacker = "0" \/ attacker = victim
            THEN RoundContacts(rows, i + 1, seen, r)
            ELSE IF pair \in seen
            THEN RoundContacts(rows, i + 1, seen, r)
            ELSE <<[attacker |-> attacker, victim |-> victim,
                    damage_tick |-> rows[i].tick, round_num |-> r.round_num]>>
                 \o RoundContacts(rows, i + 1, seen \cup {pair}, r)

\* 165-187
RECURSIVE ContactsFrom(_, _)
ContactsFrom(rs, i) ==
    IF i > Len(rs) THEN <<>>
    ELSE RoundContacts(RoundHurts(rs[i]), 1, {}, rs[i]) \o ContactsFrom(rs, i + 1)
Contacts(rs) == ContactsFrom(rs, 1)

\* range(0, lookback, LOOKBACK_STEP)
LookbackOffsets(lookback) == { dt \in 0..(lookback - 1) : dt % LOOKBACK_STEP = 0 }
\* 192-197
AllTicks(cs, lookback) ==
    UNION { { Max(0, cs[i].damage_tick - dt) : dt \in LookbackOffsets(lookback) } :
            i \in DOMAIN cs }

\* 199-212: the rows of the batched query, keyed by player and tick
PlayerTicks(all_ticks) ==
    [ sid \in Players |->
        [ t \in { u \in all_ticks : ~IsNone(TracePose(sid, u)) } |->
            Val(TracePose(sid, t)) ] ]
\* player_ticks.get(sid, {})
TicksOf(player_ticks, sid) ==
    IF sid \in DOMAIN player_ticks THEN player_ticks[sid] ELSE <<>>

\* 214-224: the weapon names the fire filter drops (substring match on the
\* lower-cased name)
FireWeapons == {"ak47", "knife_t", "hegrenade", "c4"}
ExcludedFireWeapon(w) == w \in {"knife_t", "hegrenade", "c4"}
FireIndices(sid) ==
    { i \in DOMAIN fires_df :
        /\ Str(fires_df[i].user_steamid) = sid
        /\ sid # ""
        /\ ~ExcludedFireWeapon(fires_df[i].weapon) }
\* fire_by_player[sid], sorted
FireTicks(sid) == SetToSorted({ fires_df[i].tick : i \in FireIndices(sid) })

\* 242-243: ticks.get(closest_t) or ticks.get(t)
Sample(ticks, closest_t, t) ==
    IF closest_t \in DOMAIN ticks THEN Some(ticks[closest_t])
    ELSE IF t \in DOMAIN ticks THEN Some(ticks[t])
    ELSE None

\* 241
ClosestT(t) == t - (t % LOOKBACK_STEP)
\* 254
CandidateTick(atk_ticks, t) ==
    IF ClosestT(t) \in DOMAIN atk_ticks THEN ClosestT(t) ELSE t

\* 238: range(dmg_tick, max(0, dmg_tick - lookback), -LOOKBACK_STEP)
CheckTicks(dmg_tick, lookback) ==
    { dmg_tick - dt : dt \in { o \in LookbackOffsets(lookback) :
                                   dmg_tick - o > Max(0, dmg_tick - lookback) } }

\* 241-257: what one pass of the loop body does at tick t
\*   "skip"  a sample is missing: continue
\*   "dead"  a player is not alive: break
\*   "in"    the angle is within the cone: first_in_fov_tick is set
\*   "out"   it is not: break if first_in_fov_tick is set
StepKind(t, atk_ticks, vic_ticks) ==
    LET a == Sample(atk_ticks, ClosestT(t), t)
        v == Sample(vic_ticks, ClosestT(t), t)
    IN IF IsNone(a) \/ IsNone(v) THEN "skip"
       ELSE IF ~Val(a).is_alive \/ ~Val(v).is_alive THEN "dead"
       ELSE IF InFov(Val(a), Val(v)) THEN "in"
       ELSE "out"

MinOf(S) == CHOOSE m \in S : \A x \in S : m <= x
MaxOf(S) == 0 - MinOf({ 0 - x : x \in S })

\* 240-257: the loop runs down the check ticks.  It breaks at the highest
\* tick that is "dead", or "out" below an "in" tick; first_in_fov_tick is the
\* candidate of the lowest "in" tick above the break.
\* kind maps each check tick to its StepKind, ins are the "in" ticks.
BreakTicks(kind, ins, top_in) ==
    { t \in DOMAIN kind : kind[t] = "dead" \/ (kind[t] = "out" /\ t < top_in) }
KeptIns(ins, breaks) ==
    IF breaks = {} THEN ins ELSE { t \in ins : t > MaxOf(breaks) }
ScanResult(kept, atk_ticks) ==
    IF kept = {} THEN None ELSE Some(CandidateTick(atk_ticks, MinOf(kept)))
ScanIns(kind, ins, atk_ticks) ==
    IF ins = {} THEN None
    ELSE ScanResult(KeptIns(ins, BreakTicks(kind, ins, MaxOf(ins))), atk_ticks)
ScanKinds(kind, atk_ticks) ==
    ScanIns(kind, { t \in DOMAIN kind : kind[t] = "in" }, atk_ticks)
Scan(dmg_tick, lookback, atk_ticks, vic_ticks) ==
    ScanKinds([ t \in CheckTicks(dmg_tick, lookback) |->
                  StepKind(t, atk_ticks, vic_ticks) ], atk_ticks)

\* 237-257
FirstInFovTick(c, player_ticks, lookback) ==
    Scan(c.damage_tick, lookback,
         TicksOf(player_ticks, c.attacker), TicksOf(player_ticks, c.victim))

\* mutant: the first ft of the sorted list with lo <= ft, whatever hi
FirstFireIn_NoUpper(fts, lo, hi) ==
    LET ok == { i \in DOMAIN fts : lo <= fts[i] }
    IN IF ok = {} THEN None
       ELSE Some(fts[CHOOSE i \in ok : \A j \in ok : i <= j])
\* 266-270: the first ft of the sorted list with lo <= ft <= hi
FirstFireIn(fts, lo, hi) ==
    LET ok == { i \in DOMAIN fts : lo <= fts[i] /\ fts[i] <= hi }
    IN IF ok = {} THEN None
       ELSE Some(fts[CHOOSE i \in ok : \A j \in ok : i <= j])

\* mutant: only a scan without candidate drops the contact
Dropped_OnlyNone(first, dmg_tick) == IsNone(first)
\* 259: first_in_fov_tick is None or first_in_fov_tick >= dmg_tick
Dropped(first, dmg_tick) == IsNone(first) \/ Val(first) >= dmg_tick

\* mutant: the sight-to-fire span counts both end ticks
SightToFireTicks_Inclusive(ft, first) == ft - first + 1
\* 268: ft - first_in_fov_tick
SightToFireTicks(ft, first) == ft - first

\* mutant: the fire-to-damage span measured from the sight tick
FireToDamageTicks_FromSight(dmg_tick, ft, first) == dmg_tick - first
\* 269: dmg_tick - ft
FireToDamageTicks(dmg_tick, ft, first) == dmg_tick - ft

\* 259-280: the engagement of contact c, None when the contact is dropped
Engagement(c, player_ticks, lookback, rate) ==
    LET atk_ticks == TicksOf(player_ticks, c.attacker)
        vic_ticks == TicksOf(player_ticks, c.victim)
        first == FirstInFovTick(c, player_ticks, lookback)
    IN IF DOMAIN atk_ticks = {} \/ DOMAIN vic_ticks = {} THEN None
       ELSE IF Dropped(first, c.damage_tick) THEN None
       ELSE LET ft == FirstFireIn(FireTicks(c.attacker), Val(first), c.damage_tick)
            IN Some([ attacker |-> c.attacker,
                      round_num |-> c.round_num,
                      victim |-> c.victim,
                      damage_tick |-> c.damage_tick,
                      sight_tick |-> Val(first),
                      sight_to_damage_ms |-> TicksToMs(c.damage_tick - Val(first), rate),
                      sight_to_fire_ms |->
                          IF IsNone(ft) THEN None
                          ELSE Some(TicksToMs(SightToFireTicks(Val(ft), Val(first)), rate)),
                      fire_to_damage_ms |->
                          IF IsNone(ft) THEN None
                          ELSE Some(TicksToMs(
                                  FireToDamageTicks(c.damage_tick, Val(ft), Val(first)),
                                  rate)) ])

\* 226-282
RECURSIVE EngagementsFrom(_, _, _, _, _)
EngagementsFrom(cs, i, player_ticks, lookback, rate) ==
    IF i > Len(cs) THEN <<>>
    ELSE Engagement(cs[i], player_ticks, lookback, rate)
         \o EngagementsFrom(cs, i + 1, player_ticks, lookback, rate)

compute_engagements(cs, rate) ==
    IF cs = <<>> THEN <<>>
    ELSE LET lookback == Lookback(rate)
         IN EngagementsFrom(cs, 1, PlayerTicks(AllTicks(cs, lookback)), lookback, rate)

\* 199-202 stand outside any try: when there are contacts and the bulk pose
\* query raises, the exception leaves compute_engagements and its caller
QueryOutcomes == {"rows", "raises"}
ComputeEngagements ==
    /\ pc = "rounds"
    /\ contacts' = Contacts(rounds)
    /\ IF contacts' # <<>> /\ pose_data = "raises"
       THEN engagements' = engagements /\ pc' = "raised"
       ELSE /\ engagements' = compute_engagements(contacts', tick_rate)
            /\ pc' = "engagements"
    /\ UNCHANGED cacheVars
    /\ UNCHANGED <<tick_rate, freeze_end_df, ended_df, score_data, rounds,
                   hurts_df, fires_df, trace,
                   kills_df, bullets_df, angle_data, pose_data, team_data,
                   anticheat, result, sig, suspicion, flags>>

(***************************************************************************)
(* cache.py 30-51: get_cached and put_cache of one demo file.  The text of *)
(* the cache entry is a sequence of tokens; a position that was never      *)
(* written inside the file's length reads as NUL.                          *)
(***************************************************************************)
NumMembers == 1
MaxCalls == 3
Callers == {"p1", "p2", "p3"}

Tok(t) == [t |-> t, k |-> 0, v |-> 0]
Pair(k, v) == [t |-> "pair", k |-> k, v |-> v]
NUL == Tok("NUL")
\* the analysis result of the demo, the same for every caller
CachedResult == [ k \in 1..NumMembers |-> 100 + k ]

\* json.dump of a dict: { pair , pair ... }
json_dump(d) ==
    LET n == Cardinality(DOMAIN d)
        keys == SetToSorted(DOMAIN d)
    IN <<Tok("{")>>
       \o [ i \in 1..(IF n = 0 THEN 0 ELSE 2 * n - 1) |->
              IF i % 2 = 1 THEN Pair(keys[(i + 1) \div 2], d[keys[(i + 1) \div 2]])
              ELSE Tok(",") ]
       \o <<Tok("}")>>

\* json.load of a text: the dict, or an exception on anything but one
\* complete object (a later pair of the same key replaces the earlier one)
json_load(text) ==
    LET n == Len(text)
        inner == SubSeq(text, 2, n - 1)
        WellFormed ==
            /\ n >= 2 /\ text[1] = Tok("{") /\ text[n] = Tok("}")
            /\ inner = <<>> \/ Len(inner) % 2 = 1
            /\ \A i \in DOMAIN inner :
                  inner[i].t = (IF i % 2 = 1 THEN "pair" ELSE ",")
        keys == { inner[i].k : i \in { j \in DOMAIN inner : j % 2 = 1 } }
        Last(k) == MaxOf({ i \in DOMAIN inner : inner[i].t = "pair" /\ inner[i].k = k })
    IN IF WellFormed
       THEN [raised |-> FALSE, value |-> [ k \in keys |-> inner[Last(k)].v ]]
       ELSE [raised |-> TRUE, value |-> <<>>]

\* open(cp, "w") leaves the file empty; each flushed piece lands at the
\* writer's own offset
\* mutant: the file opened for appending, each piece lands at the end
WriteOffset_Append(file, off) == Len(file) + 1
WriteOffset(file, off) == off + 1
WriteAt(file, pos, tok) ==
    IF pos <= Len(file) THEN [file EXCEPT ![pos] = tok]
    ELSE file \o [ i \in 1..(pos - Len(file) - 1) |-> NUL ] \o <<tok>>

IdleCall == [pc |-> "idle", off |-> 0, buf |-> <<>>, ret |-> None]
NoCacheUse ==
    cache_file = None /\ calls = [ p \in Callers |-> IdleCall ] /\ calls_made = 0

\* get_cached, 33-35: the entry does not exist, return None; otherwise open it
GetExists(p) ==
    /\ calls[p].pc = "idle" /\ calls_made < MaxCalls
    /\ calls_made' = calls_made + 1
    /\ IF IsNone(cache_file)
       THEN calls' = [calls EXCEPT ![p].ret = None, ![p].buf = <<>>]
       ELSE calls' = [calls EXCEPT ![p].pc = "get_open"]
    /\ UNCHANGED <<cache_file, analysisVars>>

\* get_cached, 36
GetOpen(p) ==
    /\ calls[p].pc = "get_open"
    /\ calls' = [calls EXCEPT ![p].pc = "get_read", ![p].off = 0, ![p].buf = <<>>]
    /\ UNCHANGED <<cache_file, calls_made, analysisVars>>

\* get_cached, 37: f.read() takes the text piece by piece
GetRead(p) ==
    /\ calls[p].pc = "get_read"
    /\ calls[p].off < Len(Val(cache_file))
    /\ calls' = [calls EXCEPT ![p].buf = Append(@, Val(cache_file)[calls[p].off + 1]),
                              ![p].off = @ + 1]
    /\ UNCHANGED <<cache_file, calls_made, analysisVars>>

\* get_cached, 37-40: at the end of the file json.load parses what was read;
\* its exception is swallowed and None returned
GetLoad(p) ==
    /\ calls[p].pc = "get_read"
    /\ calls[p].off >= Len(Val(cache_file))
    /\ LET r == json_load(calls[p].buf)
       IN calls' = [calls EXCEPT ![p].pc = "idle", ![p].off = 0,
                                 ![p].ret = IF r.raised THEN None ELSE Some(r.value)]
    /\ UNCHANGED <<cache_file, calls_made, analysisVars>>

\* put_cache, 46-48: open(cp, "w") creates or truncates the entry
PutOpen(p) ==
    /\ calls[p].pc = "idle" /\ calls_made < MaxCalls
    /\ calls_made' = calls_made + 1
    /\ cache_file' = Some(<<>>)
    /\ calls' = [calls EXCEPT ![p].pc = "put_write", ![p].off = 0]
    /\ UNCHANGED analysisVars

\* put_cache, 49: json.dump writes the text piece by piece
PutWrite(p) ==
    /\ calls[p].pc = "put_write"
    /\ calls[p].off < Len(json_dump(CachedResult))
    /\ cache_file' = Some(WriteAt(Val(cache_file),
                                  WriteOffset(Val(cache_file), calls[p].off),
                                  json_dump(CachedResult)[calls[p].off + 1]))
    /\ calls' = [calls EXCEPT ![p].off = @ + 1]
    /\ UNCHANGED <<calls_made, analysisVars>>

\* put_cache, 48-51: the file is closed, the call returns
PutClose(p) ==
    /\ calls[p].pc = "put_write"
    /\ calls[p].off = Len(json_dump(CachedResult))
    /\ calls' = [calls EXCEPT ![p].pc = "idle", ![p].off = 0]
    /\ UNCHANGED <<cache_file, calls_made, analysisVars>>

NoEngagementInput ==
    /\ hurts_df = <<>> /\ fires_df = <<>>
    /\ trace = [sid \in Players |-> Steady]
    /\ contacts = <<>> /\ engagements = <<>>
NoMetricsInput ==
    /\ kills_df = <<>> /\ bullets_df = <<>>
    /\ angle_data = "rows" /\ pose_data = "rows" /\ team_data = "rows"
    /\ anticheat = <<>> /\ result = None

(***************************************************************************)
(* SpecRounds: build_rounds over every list of at most MaxFreeze start     *)
(* ticks and MaxEnded end ticks, in any file order, duplicates included.   *)
(***************************************************************************)
MaxFreeze == 3
MaxEnded == 2
FreezeTickValues == {100, 200, 300, 20150}
EndedTickValues == {150, 200, 250, 20120}

InitRounds ==
    /\ NoCacheUse
    /\ pc = "start"
    /\ tick_rate = 64
    /\ freeze_end_df \in SeqsUpTo(FreezeTickValues, MaxFreeze)
    /\ ended_df \in SeqsUpTo(EndedTickValues, MaxEnded)
    /\ score_data \in ScoreOutcomes
    /\ rounds = <<>>
    /\ NoEngagementInput
    /\ NoMetricsInput
    /\ sig = NoSignal /\ suspicion = 0 /\ flags = <<>>

NextRounds == BuildRounds
SpecRounds == InitRounds /\ [][NextRounds]_vars

\* C2: every round has start_tick < end_tick, and the rounds are ordered by
\* non-decreasing start_tick, round_num counting up from 1.
C2_RoundsOrdered ==
    pc = "rounds" =>
        /\ \A i \in DOMAIN rounds :
              /\ rounds[i].start_tick < rounds[i].end_tick
              /\ rounds[i].round_num = i
        /\ \A i, j \in DOMAIN rounds :
              i < j => rounds[i].start_tick <= rounds[j].start_tick

\* start ticks given out of order, one round closed by an end event and a
\* later one left open
C2_Witness ==
    /\ pc = "rounds"
    /\ Len(freeze_end_df) = 3
    /\ freeze_end_df[1] > freeze_end_df[2]
    /\ Len(rounds) = 3
    /\ rounds[1].end_tick = 150
    /\ rounds[3].end_tick = rounds[3].start_tick + OPEN_ROUND_TICKS

\* C3: any two distinct rounds share no tick of their [start_tick, end_tick].
Overlap(r1, r2) == r1.start_tick <= r2.end_tick /\ r2.start_tick <= r1.end_tick
C3_RoundsDisjoint ==
    pc = "rounds" =>
        \A i, j \in DOMAIN rounds : i # j => ~Overlap(rounds[i], rounds[j])

(***************************************************************************)
(* SpecEng: build_rounds, then compute_engagements.  The inputs are drawn  *)
(* from three families, each wide in the part of the input one step of     *)
(* the function reads:                                                     *)
(*   contacts  round layouts and damage tables (contact extraction)        *)
(*   scan      traces around one or two contacts (backward FOV scan)       *)
(*   fire      sight gaps and weapon_fire tables (fire correlation)        *)
(***************************************************************************)
MaxHurts == 2
MaxFires == 1
MaxSightGap == 7

HurtRow(t, a, u) ==
    [tick |-> t, attacker_steamid |-> a, user_steamid |-> u, weapon |-> "ak47"]
FireRow(t, u, w) == [tick |-> t, user_steamid |-> u, weapon |-> w]

\* round layouts: closed rounds, two starts before one end, open rounds
\* (alone, overlapping, one after the other), none
RoundLayouts == {
    [freeze |-> <<10>>,     ended |-> <<40>>],
    [freeze |-> <<50, 10>>, ended |-> <<40, 80>>],
    [freeze |-> <<10, 20>>, ended |-> <<40>>],
    [freeze |-> <<10>>,     ended |-> <<>>],
    [freeze |-> <<10, 30>>, ended |-> <<>>],
    [freeze |-> <<10, 20011>>, ended |-> <<>>],
    [freeze |-> <<>>,       ended |-> <<40>>] }
ContactRows ==
    { HurtRow(t, "A", "B") : t \in {9, 10, 25, 40, 60, 20011} }
    \cup { HurtRow(25, a, "B") : a \in {"B", "0", "", NullId} }
    \cup { HurtRow(60, "B", "A"), HurtRow(26, "B", "A") }

InitEngContacts ==
    /\ tick_rate = 64
    /\ \E l \in RoundLayouts : freeze_end_df = l.freeze /\ ended_df = l.ended
    /\ hurts_df \in SeqsUpTo(ContactRows, MaxHurts)
    /\ fires_df = <<>>
    /\ trace = [sid \in Players |-> Steady]

\* scan family: "A" damages "B" at tick d, and "B" may damage "A" one tick
\* before; "A"'s trace changes at one tick d - o or on all ticks up to d - o,
\* and "B" may be dead or absent likewise
ScanSetups == {
    [rate |-> 64,  d |-> 100], [rate |-> 64,  d |-> 101],
    [rate |-> 64,  d |-> 600], [rate |-> 64,  d |-> 601],
    [rate |-> 128, d |-> 600], [rate |-> 128, d |-> 601] }
ScanOffsets == {0, 1, 2, 50}
TraceChanges(d, kinds) ==
    {Steady}
    \cup { [kind |-> k, lo |-> d - o, hi |-> d - o] : k \in kinds, o \in ScanOffsets }
    \cup { [kind |-> k, lo |-> 0, hi |-> d - o] : k \in kinds, o \in ScanOffsets }

InitEngScan ==
    /\ freeze_end_df = <<10>> /\ ended_df = <<5000>>
    /\ fires_df = <<>>
    /\ \E s \in ScanSetups :
          /\ tick_rate = s.rate
          /\ hurts_df \in { <<HurtRow(s.d, "A", "B")>>,
                            <<HurtRow(s.d, "A", "B"), HurtRow(s.d - 1, "B", "A")>> }
          /\ \E ca \in TraceChanges(s.d, TraceKinds),
                cb \in TraceChanges(s.d, {"dead", "absent"}) :
                trace = [sid \in Players |-> IF sid = "A" THEN ca ELSE cb]

\* fire family: "A" looks away up to tick d - n - 1, damages "B" at d, and
\* fires around the sight tick and the damage tick; at an odd d "B" damages
\* "A" one tick before, which puts the even ticks into the pose query.
\* FirePairs are two fire rows at once: out of tick order, a knife row or a
\* row of "B" before a rifle row, one before the sight tick, one after the
\* damage tick.
FireSetups == {
    [d |-> 600, hurts |-> <<HurtRow(600, "A", "B")>>],
    [d |-> 601, hurts |-> <<HurtRow(601, "A", "B"), HurtRow(600, "B", "A")>>] }
FireRows(d) ==
    { FireRow(d - b, "A", "ak47") : b \in (-1)..(MaxSightGap + 1) }
    \cup { FireRow(d - 1, "A", "knife_t"), FireRow(d - 1, "A", "hegrenade"),
           FireRow(d - 1, "B", "ak47") }

FirePairs(d) == {
    <<FireRow(d, "A", "ak47"), FireRow(d - 1, "A", "ak47")>>,
    <<FireRow(d - 1, "A", "knife_t"), FireRow(d, "A", "ak47")>>,
    <<FireRow(d - 1, "B", "ak47"), FireRow(d, "A", "ak47")>>,
    <<FireRow(d, "A", "ak47"), FireRow(d - MaxSightGap - 1, "A", "ak47")>>,
    <<FireRow(d + 1, "A", "ak47"), FireRow(d - 1, "A", "ak47")>> }

InitEngFire ==
    /\ tick_rate \in {64, 128}
    /\ freeze_end_df = <<10>> /\ ended_df = <<5000>>
    /\ \E s \in FireSetups, n \in 1..MaxSightGap :
          /\ hurts_df = s.hurts
          /\ trace = [sid \in Players |->
                        IF sid = "A" THEN [kind |-> "away", lo |-> 0, hi |-> s.d - n - 1]
                        ELSE Steady]
          /\ fires_df \in SeqsUpTo(FireRows(s.d), MaxFires) \cup FirePairs(s.d)

InitEng ==
    /\ NoCacheUse
    /\ pc = "start"
    /\ score_data = "rows"
    /\ rounds = <<>> /\ contacts = <<>> /\ engagements = <<>>
    /\ NoMetricsInput
    /\ sig = NoSignal /\ suspicion = 0 /\ flags = <<>>
    /\ InitEngContacts \/ InitEngScan \/ InitEngFire

NextEng == BuildRounds \/ ComputeEngagements
SpecEng == InitEng /\ [][NextEng]_vars

Done == pc = "engagements"
ContactSet == Range(contacts)
EngagementSet == Range(engagements)
\* the engagements emitted for contact c
EngagementsOf(c) ==
    { e \in EngagementSet :
        e.round_num = c.round_num /\ e.attacker = c.attacker /\ e.victim = c.victim }
\* the damage rows of the ordered pair of c within round r
PairRowsIn(r, attacker, victim) ==
    { i \in DOMAIN hurts_df :
        /\ Str(hurts_df[i].attacker_steamid) = attacker
        /\ Str(hurts_df[i].user_steamid) = victim
        /\ r.start_tick <= hurts_df[i].tick /\ hurts_df[i].tick <= r.end_tick }

InConeTicks(c) ==
    LET lookback == Lookback(tick_rate)
        player_ticks == PlayerTicks(AllTicks(contacts, lookback))
        atk_ticks == TicksOf(player_ticks, c.attacker)
        vic_ticks == TicksOf(player_ticks, c.victim)
    IN { CandidateTick(atk_ticks, t) :
           t \in { u \in CheckTicks(c.damage_tick, lookback) :
                     StepKind(u, atk_ticks, vic_ticks) = "in" } }

\* C5: every engagement has damage_tick - lookback < sight_tick < damage_tick
\* (lookback 192 at tick rate 64, 384 at 128), so sight_to_damage_ms < 3000;
\* a contact with no in-cone tick in the window, or none but the damage tick,
\* has no engagement.
C5_SightInsideWindow ==
    Done =>
        /\ Lookback(tick_rate) = (IF tick_rate = 64 THEN 192 ELSE 384)
        /\ \A e \in EngagementSet :
              /\ e.damage_tick - Lookback(tick_rate) < e.sight_tick
              /\ e.sight_tick < e.damage_tick
              /\ e.sight_to_damage_ms < 3000
        /\ \A c \in ContactSet :
              InConeTicks(c) \subseteq {c.damage_tick} => EngagementsOf(c) = {}

\* one contact reconstructed, and another whose only in-cone tick is its
\* damage tick and which is dropped
C5_Witness ==
    /\ Done
    /\ \E e \in EngagementSet : e.sight_tick < e.damage_tick - 1
    /\ \E c \in ContactSet :
          /\ InConeTicks(c) = {c.damage_tick}
          /\ EngagementsOf(c) = {}

Abs(x) == IF x < 0 THEN 0 - x ELSE x

\* C6: sight_to_fire_ms is present exactly when fire_to_damage_ms is, and then
\* sight_to_fire_ms + fire_to_damage_ms is within 1 ms of sight_to_damage_ms.
C6_FireSumWithinOneMs ==
    Done =>
        \A e \in EngagementSet :
            /\ IsNone(e.sight_to_fire_ms) <=> IsNone(e.fire_to_damage_ms)
            /\ ~IsNone(e.sight_to_fire_ms) =>
                  Abs(Val(e.sight_to_fire_ms) + Val(e.fire_to_damage_ms)
                      - e.sight_to_damage_ms) <= 1

\* an engagement with a fire tick strictly inside, the sum one more than
\* sight_to_damage_ms
C6_Witness ==
    /\ Done
    /\ \E e \in EngagementSet :
          /\ ~IsNone(e.sight_to_fire_ms)
          /\ Val(e.sight_to_fire_ms) > 0 /\ Val(e.fire_to_damage_ms) > 0
          /\ Val(e.sight_to_fire_ms) + Val(e.fire_to_damage_ms) = e.sight_to_damage_ms + 1

\* C7 as stated: sight_to_fire_ms + fire_to_damage_ms = sight_to_damage_ms
\* exactly in every engagement that has a fire tick.
C7_FireSumExact ==
    Done =>
        \A e \in EngagementSet :
            ~IsNone(e.sight_to_fire_ms) =>
                Val(e.sight_to_fire_ms) + Val(e.fire_to_damage_ms) = e.sight_to_damage_ms

\* C7 amended: the sum equals sight_to_damage_ms exactly when the fire tick is
\* the sight tick or the damage tick (one of the two spans is 0 ms), and is
\* one of sight_to_damage_ms - 1, sight_to_damage_ms, sight_to_damage_ms + 1
\* otherwise.
C7_FireSumExactAtEnds ==
    Done =>
        \A e \in EngagementSet :
            ~IsNone(e.sight_to_fire_ms) =>
                LET sum == Val(e.sight_to_fire_ms) + Val(e.fire_to_damage_ms)
                    ft == FirstFireIn(FireTicks(e.attacker), e.sight_tick, e.damage_tick)
                IN /\ ~IsNone(ft)
                   /\ Val(ft) \in {e.sight_tick, e.damage_tick} => sum = e.sight_to_damage_ms
                   /\ sum \in { e.sight_to_damage_ms - 1, e.sight_to_damage_ms,
                                e.sight_to_damage_ms + 1 }

\* an engagement whose fire tick is the sight tick, and below the damage tick
C7_Witness ==
    /\ Done
    /\ \E e \in EngagementSet :
          /\ e.sight_to_fire_ms = Some(0)
          /\ e.fire_to_damage_ms = Some(e.sight_to_damage_ms)
          /\ e.sight_to_damage_ms > 0

\* C10: the attacker's view is outside the cone at tick T and inside at the
\* ticks T+2, T+4, ..., T+50, both players sampled and alive from T to the
\* damage tick T+50: the engagement has sight_tick = T+2 and
\* sight_to_damage_ms = round(48 / tick_rate * 1000).
PoseAt(sid, t) == Val(TracePose(sid, t))
SampledAlive(sid, t) == ~IsNone(TracePose(sid, t)) /\ PoseAt(sid, t).is_alive
C10_Scenario(c) ==
    LET T == c.damage_tick - 50
    IN /\ T >= 0
       /\ c.attacker \in Players /\ c.victim \in Players
       /\ \A t \in T..c.damage_tick :
             SampledAlive(c.attacker, t) /\ SampledAlive(c.victim, t)
       /\ ~InFov(PoseAt(c.attacker, T), PoseAt(c.victim, T))
       /\ \A t \in (T + 2)..c.damage_tick :
             (t - T) % LOOKBACK_STEP = 0 =>
                 InFov(PoseAt(c.attacker, t), PoseAt(c.victim, t))
C10_RunStartReported ==
    Done =>
        \A c \in ContactSet :
            C10_Scenario(c) =>
                \E e \in EngagementsOf(c) :
                    /\ e.sight_tick = c.damage_tick - 50 + 2
                    /\ e.sight_to_damage_ms = TicksToMs(48, tick_rate)

\* C17: an engagement has sight_to_fire_ms and fire_to_damage_ms exactly
\* when its attacker has a fire row of a weapon that is neither melee nor
\* utility with sight_tick <= tick <= damage_tick, and both values are then
\* taken from the lowest such tick; rows before the sight tick, after the
\* damage tick, of another player or of a knife or grenade do not count.
C17_FireTicksIn(e) ==
    { fires_df[i].tick :
        i \in { j \in DOMAIN fires_df :
                  /\ Str(fires_df[j].user_steamid) = e.attacker
                  /\ ~ExcludedFireWeapon(fires_df[j].weapon)
                  /\ e.sight_tick <= fires_df[j].tick
                  /\ fires_df[j].tick <= e.damage_tick } }
C17_FireCorrelation ==
    Done =>
        \A e \in EngagementSet :
            IF C17_FireTicksIn(e) = {}
            THEN IsNone(e.sight_to_fire_ms) /\ IsNone(e.fire_to_damage_ms)
            ELSE LET ft == MinOf(C17_FireTicksIn(e))
                 IN /\ e.sight_to_fire_ms = Some(TicksToMs(ft - e.sight_tick, tick_rate))
                    /\ e.fire_to_damage_ms = Some(TicksToMs(e.damage_tick - ft, tick_rate))

\* two fire rows of the attacker inside the window, the later one first in
\* the file: the values are those of the earlier tick
C17_Witness ==
    /\ Done
    /\ Len(fires_df) = 2 /\ fires_df[1].tick > fires_df[2].tick
    /\ \E e \in EngagementSet :
          /\ Cardinality(C17_FireTicksIn(e)) = 2
          /\ e.fire_to_damage_ms = Some(TicksToMs(1, tick_rate))
          /\ Val(e.sight_to_fire_ms) > 0

\* C16: the scan of a contact stops at the first scanned tick, going back
\* from the damage tick, at which both players have a pose sample and one of
\* them is not alive.  So in every engagement both players are alive at
\* sight_tick and at every scanned tick from sight_tick up to damage_tick
\* that has both samples; and a candidate found above the stop is kept: a
\* contact in view on every scanned tick from some tick below the damage
\* tick up to it, all above the stop, has an engagement.
C16_BothSampled(c, t) ==
    ~IsNone(TracePose(c.attacker, t)) /\ ~IsNone(TracePose(c.victim, t))
C16_BothAlive(c, t) == SampledAlive(c.attacker, t) /\ SampledAlive(c.victim, t)
C16_InView(c, t) ==
    C16_BothAlive(c, t) /\ InFov(PoseAt(c.attacker, t), PoseAt(c.victim, t))
C16_StopTicks(c) ==
    { t \in CheckTicks(c.damage_tick, Lookback(tick_rate)) :
        C16_BothSampled(c, t) /\ ~C16_BothAlive(c, t) }
C16_ScanStopsAtDeadTick ==
    Done =>
        /\ \A e \in EngagementSet :
              /\ C16_BothAlive(e, e.sight_tick)
              /\ \A t \in C16_StopTicks(e) : t < e.sight_tick
        /\ \A c \in ContactSet :
              (/\ c.attacker \in Players /\ c.victim \in Players
               /\ \E u \in CheckTicks(c.damage_tick, Lookback(tick_rate)) :
                     /\ u < c.damage_tick
                     /\ \A t \in CheckTicks(c.damage_tick, Lookback(tick_rate)) :
                           t >= u => C16_InView(c, t))
              => EngagementsOf(c) # {}

\* C19: the engagement of a contact does not depend on the other contacts of
\* the run: whether one is emitted, and its sight_tick, are those of the run
\* over that contact alone (same trace, same fire rows), for even and odd
\* damage ticks alike.
C19_SightTicks(es) == { es[i].sight_tick : i \in DOMAIN es }
C19_IndependentOfOtherContacts ==
    Done =>
        \A i \in DOMAIN contacts :
            C19_SightTicks(compute_engagements(<<contacts[i]>>, tick_rate))
              = { e.sight_tick : e \in EngagementsOf(contacts[i]) }

\* a round whose start tick has no later round-end event
C11_Open(r) == \A i \in DOMAIN ended_df : ended_df[i] <= r.start_tick
\* the damage rows one tick past the 20000 ticks of round r
C11_LateRows(r) ==
    { i \in DOMAIN hurts_df : hurts_df[i].tick = r.start_tick + OPEN_ROUND_TICKS + 1 }
C11_ContactsOfRow(i) ==
    { c \in ContactSet : /\ c.damage_tick = hurts_df[i].tick
                         /\ c.attacker = Str(hurts_df[i].attacker_steamid)
                         /\ c.victim = Str(hurts_df[i].user_steamid) }

\* C11 as stated: an open round ends at start_tick + 20000, and a damage row
\* at start_tick + 20001 lies in no round and gives no contact, whatever the
\* list of start ticks.
C11_LateDamageInNoRound ==
    Done =>
        \A k \in DOMAIN rounds :
            C11_Open(rounds[k]) =>
                /\ rounds[k].end_tick = rounds[k].start_tick + 20000
                /\ \A i \in C11_LateRows(rounds[k]) :
                      /\ \A j \in DOMAIN rounds : ~InRound(hurts_df[i].tick, rounds[j])
                      /\ C11_ContactsOfRow(i) = {}

\* C11, amended: an open round ends at start_tick + 20000; a damage row at
\* start_tick + 20001 lies outside that round and gives no contact of that
\* round; it gives no contact at all when no other round holds its tick.
C11_LateDamageOutsideItsRound ==
    Done =>
        \A k \in DOMAIN rounds :
            C11_Open(rounds[k]) =>
                /\ rounds[k].end_tick = rounds[k].start_tick + 20000
                /\ \A i \in C11_LateRows(rounds[k]) :
                      /\ ~InRound(hurts_df[i].tick, rounds[k])
                      /\ \A c \in C11_ContactsOfRow(i) : c.round_num # k
                      /\ (\A j \in DOMAIN rounds : ~InRound(hurts_df[i].tick, rounds[j]))
                            => C11_ContactsOfRow(i) = {}

\* an open round alone, with a damage row of "A" on "B" one tick past its
\* end and another row inside it: only the row inside gives a contact
C11_Witness ==
    /\ Done
    /\ Len(rounds) = 1 /\ C11_Open(rounds[1])
    /\ \E i \in C11_LateRows(rounds[1]) :
          /\ hurts_df[i].attacker_steamid = "A" /\ hurts_df[i].user_steamid = "B"
          /\ C11_ContactsOfRow(i) = {}
    /\ Len(contacts) = 1

(***************************************************************************)
(* Suspicion scoring: the threshold rule table, analyzer.py 411-452.       *)
(* A signal record s holds the values the rules read:                      *)
(*   avg_reaction, min_reaction : nullable ms                              *)
(*   kills, hs, smoke           : len(player_kills), len(hs_kills),        *)
(*                                len(smoke_kills)                         *)
(*   bullets, hits              : len(player_bullets), len(player_hurts)   *)
(*   max_snap, hs_variance      : nullable                                 *)
(* hs_rate = hs / kills * 100 when kills > 0, else 0; and so on.           *)
(***************************************************************************)
\* hs_rate > p, with hs_rate = hs/kills*100 if kills > 0 else 0
HsRateAbove(s, p) == IF s.kills > 0 THEN s.hs * 100 > p * s.kills ELSE 0 > p
\* smoke_kill_rate > p
SmokeRateAbove(s, p) == IF s.kills > 0 THEN s.smoke * 100 > p * s.kills ELSE 0 > p
\* accuracy > p, with accuracy = hits/bullets*100 if bullets > 0 else 0
AccuracyAbove(s, p) == IF s.bullets > 0 THEN s.hits * 100 > p * s.bullets ELSE 0 > p

\* Each if/elif statement of the table is one operator giving the points it
\* adds and the flags it appends.
Award(p, f) == [points |-> p, flags |-> <<f>>]
NoAward == [points |-> 0, flags |-> <<>>]

\* mutant: the points of the two avg-reaction branches exchanged
AvgReactionRule_Swapped(s) ==
    IF ~IsNone(s.avg_reaction) /\ Val(s.avg_reaction) < 120
    THEN Award(10, "Inhuman avg reaction")
    ELSE IF ~IsNone(s.avg_reaction) /\ Val(s.avg_reaction) < 180
    THEN Award(25, "Very fast avg reaction")
    ELSE NoAward
\* 415-420
AvgReactionRule(s) ==
    IF ~IsNone(s.avg_reaction) /\ Val(s.avg_reaction) < 120
    THEN Award(25, "Inhuman avg reaction")
    ELSE IF ~IsNone(s.avg_reaction) /\ Val(s.avg_reaction) < 180
    THEN Award(10, "Very fast avg reaction")
    ELSE NoAward
\* 422-424
MinReactionRule(s) ==
    IF ~IsNone(s.min_reaction) /\ Val(s.min_reaction) < 70
    THEN Award(15, "Suspicious min reaction")
    ELSE NoAward
\* 426-431
HsRateRule(s) ==
    IF HsRateAbove(s, 75) /\ s.kills >= 8
    THEN Award(25, "Abnormal HS rate")
    ELSE IF HsRateAbove(s, 60) /\ s.kills >= 8
    THEN Award(5, "High HS rate")
    ELSE NoAward
\* 433-435
SmokeRule(s) ==
    IF SmokeRateAbove(s, 20) /\ s.smoke >= 3
    THEN Award(20, "Suspicious smoke kills")
    ELSE NoAward
\* mutant: the second accuracy branch an if of its own, not an elif
AccuracyRule_NoElif(s) ==
    IF AccuracyAbove(s, 55) /\ s.bullets >= 30
    THEN [points |-> 25, flags |-> <<"Abnormal accuracy", "High accuracy">>]
    ELSE IF AccuracyAbove(s, 40) /\ s.bullets >= 30
    THEN Award(5, "High accuracy")
    ELSE NoAward
\* 437-442
AccuracyRule(s) ==
    IF AccuracyAbove(s, 55) /\ s.bullets >= 30
    THEN Award(20, "Abnormal accuracy")
    ELSE IF AccuracyAbove(s, 40) /\ s.bullets >= 30
    THEN Award(5, "High accuracy")
    ELSE NoAward
\* 444-446
SnapRule(s) ==
    IF ~IsNone(s.max_snap) /\ Val(s.max_snap) > 60
    THEN Award(15, "Aim snap detected")
    ELSE NoAward
\* 448-450
HsConsistencyRule(s) ==
    IF /\ ~IsNone(s.hs_variance) /\ Val(s.hs_variance) < 80
       /\ HsRateAbove(s, 55) /\ s.kills >= 8
    THEN Award(10, "Unnatural HS consistency")
    ELSE NoAward

\* the statements in source order
RuleTable(s) == <<AvgReactionRule(s), MinReactionRule(s), HsRateRule(s), SmokeRule(s),
                  AccuracyRule(s), SnapRule(s), HsConsistencyRule(s)>>

RECURSIVE SumPoints(_, _)
SumPoints(tbl, i) ==
    IF i > Len(tbl) THEN 0 ELSE tbl[i].points + SumPoints(tbl, i + 1)
RECURSIVE CatFlags(_, _)
CatFlags(tbl, i) ==
    IF i > Len(tbl) THEN <<>> ELSE tbl[i].flags \o CatFlags(tbl, i + 1)

\* suspicion before line 452
RawPoints(s) == SumPoints(RuleTable(s), 1)
FlagList(s) == CatFlags(RuleTable(s), 1)

\* mutant: the clamp left out
Clamp_Missing(p) == p
\* 452: suspicion = min(100, suspicion)
Clamp(p) == Min(100, p)
SuspicionScore(s) == Clamp(RawPoints(s))

(***************************************************************************)
(* SpecScore: the scorer applied to one player's signal record.            *)
(* The record is drawn so that it is one the signal computation can        *)
(* produce: min <= avg, both null together; hs, smoke <= kills; no snap    *)
(* and no variance without kills (variance needs kills in two rounds).     *)
(***************************************************************************)
AvgReactionValues == {95} \cup (100..200)
KillProfiles == {
    [kills |-> 0,  hs |-> 0, smoke |-> 0],
    [kills |-> 7,  hs |-> 7, smoke |-> 3],
    [kills |-> 8,  hs |-> 5, smoke |-> 0],
    [kills |-> 10, hs |-> 8, smoke |-> 2],
    [kills |-> 10, hs |-> 6, smoke |-> 3],
    [kills |-> 12, hs |-> 9, smoke |-> 3] }
BulletProfiles == {
    [bullets |-> 0,  hits |-> 0],
    [bullets |-> 29, hits |-> 29],
    [bullets |-> 40, hits |-> 16],
    [bullets |-> 40, hits |-> 17],
    [bullets |-> 40, hits |-> 24] }
SnapValues == {60, 70}
VarianceValues == {50, 80}

Nullable(S) == {None} \cup {Some(x) : x \in S}

\* avg and min of one non-empty reaction list: min <= avg; both null for none
ReactionProfiles ==
    {[avg |-> None, min |-> None]} \cup
    UNION { { [avg |-> Some(a), min |-> Some(m)] : m \in {60, 70, a} } :
            a \in AvgReactionValues }

MkSignal(r, k, b, sn, hv) ==
    [avg_reaction |-> r.avg, min_reaction |-> r.min,
     kills |-> k.kills, hs |-> k.hs, smoke |-> k.smoke,
     bullets |-> b.bullets, hits |-> b.hits,
     max_snap |-> sn, hs_variance |-> hv]

SignalOk(s) ==
    /\ ~IsNone(s.avg_reaction) => Val(s.min_reaction) <= Val(s.avg_reaction)
    /\ s.kills = 0 => IsNone(s.max_snap)
    /\ s.kills < 2 => IsNone(s.hs_variance)

InitScore ==
    /\ NoCacheUse
    /\ pc = "score"
    /\ tick_rate = 64
    /\ freeze_end_df = <<>> /\ ended_df = <<>> /\ score_data = "rows" /\ rounds = <<>>
    /\ NoEngagementInput
    /\ NoMetricsInput
    /\ \E r \in ReactionProfiles, k \in KillProfiles, b \in BulletProfiles,
          sn \in Nullable(SnapValues), hv \in Nullable(VarianceValues) :
            /\ sig = MkSignal(r, k, b, sn, hv)
            /\ SignalOk(sig)
    /\ suspicion = 0
    /\ flags = <<>>

\* compute_anticheat_metrics, section 7: the rules over the signals
ScoreRules ==
    /\ pc = "score"
    /\ suspicion' = SuspicionScore(sig)
    /\ flags' = FlagList(sig)
    /\ pc' = "scored"
    /\ UNCHANGED cacheVars
    /\ UNCHANGED <<tick_rate, freeze_end_df, ended_df, score_data, rounds,
                   hurts_df, fires_df, trace, contacts, engagements,
                   kills_df, bullets_df, angle_data, pose_data, team_data,
                   anticheat, result, sig>>

NextScore == ScoreRules
SpecScore == InitScore /\ [][NextScore]_vars

\* C1: the suspicion score is an integer in [0,100]; it is 100 when the points
\* of the triggered rules sum to 100 or more, and that sum otherwise.
C1_ScoreBounded ==
    pc = "scored" =>
        /\ suspicion \in 0..100
        /\ RawPoints(sig) >= 100 => suspicion = 100
        /\ RawPoints(sig) < 100 => suspicion = RawPoints(sig)

\* the scenario of the specification: 25+15+25+20+15+10 = 110, clamped to 100
C1_Witness ==
    /\ pc = "scored"
    /\ sig.avg_reaction = Some(95) /\ sig.min_reaction = Some(60)
    /\ sig.kills = 10 /\ sig.hs = 8 /\ sig.bullets = 40 /\ sig.hits = 24
    /\ sig.max_snap = Some(70) /\ sig.hs_variance = Some(50)
    /\ RawPoints(sig) = 110
    /\ suspicion = 100

\* C8: two signal records that differ only in avg_reaction, a1 <= a2 both in
\* 100..200: the score for a1 is at least the score for a2.
C8_Range == 100..200
C8_MonotoneInAvgReaction ==
    (pc = "scored" /\ ~IsNone(sig.avg_reaction) /\ Val(sig.avg_reaction) \in C8_Range) =>
        \A a2 \in C8_Range :
            Val(sig.avg_reaction) <= a2 =>
                suspicion >= SuspicionScore([sig EXCEPT !.avg_reaction = Some(a2)])

\* a record scored strictly higher than the same record with a slower average,
\* across both thresholds and below the clamp
C8_Witness ==
    /\ pc = "scored"
    /\ sig.avg_reaction = Some(119)
    /\ suspicion < 100
    /\ suspicion = SuspicionScore([sig EXCEPT !.avg_reaction = Some(179)]) + 15
    /\ suspicion = SuspicionScore([sig EXCEPT !.avg_reaction = Some(180)]) + 25

\* C18: the flags are exactly the flags of the triggered rules of the
\* threshold table, one each, in table order; the score is the sum of the
\* points of the listed flags, capped at 100 (so a score above 0 has a flag);
\* of each either/or pair at most one flag is listed, and it is the one of
\* the higher-valued rule whenever that rule's condition holds.
C18_Table == <<
    [flag |-> "Inhuman avg reaction",     points |-> 25],
    [flag |-> "Very fast avg reaction",   points |-> 10],
    [flag |-> "Suspicious min reaction",  points |-> 15],
    [flag |-> "Abnormal HS rate",         points |-> 25],
    [flag |-> "High HS rate",             points |-> 5],
    [flag |-> "Suspicious smoke kills",   points |-> 20],
    [flag |-> "Abnormal accuracy",        points |-> 20],
    [flag |-> "High accuracy",            points |-> 5],
    [flag |-> "Aim snap detected",        points |-> 15],
    [flag |-> "Unnatural HS consistency", points |-> 10] >>
C18_Pairs == { <<"Inhuman avg reaction", "Very fast avg reaction">>,
               <<"Abnormal HS rate", "High HS rate">>,
               <<"Abnormal accuracy", "High accuracy">> }
\* the condition of each row of the table, the "else" of a pair included
C18_Holds(s, flag) ==
    LET avg_below(n) == ~IsNone(s.avg_reaction) /\ Val(s.avg_reaction) < n
        hs_above(n) == s.kills > 0 /\ s.hs * 100 > n * s.kills
        acc_above(n) == s.bullets > 0 /\ s.hits * 100 > n * s.bullets
    IN CASE flag = "Inhuman avg reaction" -> avg_below(120)
         [] flag = "Very fast avg reaction" -> ~avg_below(120) /\ avg_below(180)
         [] flag = "Suspicious min reaction" ->
                ~IsNone(s.min_reaction) /\ Val(s.min_reaction) < 70
         [] flag = "Abnormal HS rate" -> hs_above(75) /\ s.kills >= 8
         [] flag = "High HS rate" ->
                ~(hs_above(75) /\ s.kills >= 8) /\ hs_above(60) /\ s.kills >= 8
         [] flag = "Suspicious smoke kills" ->
                s.kills > 0 /\ s.smoke * 100 > 20 * s.kills /\ s.smoke >= 3
         [] flag = "Abnormal accuracy" -> acc_above(55) /\ s.bullets >= 30
         [] flag = "High accuracy" ->
                ~(acc_above(55) /\ s.bullets >= 30) /\ acc_above(40) /\ s.bullets >= 30
         [] flag = "Aim snap detected" -> ~IsNone(s.max_snap) /\ Val(s.max_snap) > 60
         [] flag = "Unnatural HS consistency" ->
                /\ ~IsNone(s.hs_variance) /\ Val(s.hs_variance) < 80
                /\ hs_above(55) /\ s.kills >= 8
C18_PointsOf(fs) ==
    SumPoints([ i \in DOMAIN fs |->
                  C18_Table[CHOOSE j \in DOMAIN C18_Table : C18_Table[j].flag = fs[i]] ],
              1)
C18_FlagsJustifyPoints ==
    pc = "scored" =>
        LET Triggered(row) == C18_Holds(sig, row.flag)
            expected == SelectSeq(C18_Table, Triggered)
        IN /\ flags = [ i \in DOMAIN expected |-> expected[i].flag ]
           /\ suspicion = Min(100, C18_PointsOf(flags))
           /\ suspicion > 0 => flags # <<>>
           /\ \A pr \in C18_Pairs :
                 /\ ~(pr[1] \in Range(flags) /\ pr[2] \in Range(flags))
                 /\ C18_Holds(sig, pr[1]) => pr[1] \in Range(flags)

\* the higher rule of the reaction pair and the lower rules of the headshot
\* and accuracy pairs: three flags in table order, 25 + 5 + 5 points
C18_Witness ==
    /\ pc = "scored"
    /\ flags = <<"Inhuman avg reaction", "High HS rate", "High accuracy">>
    /\ sig.avg_reaction = Some(119)
    /\ sig.kills = 8 /\ sig.hs = 5 /\ sig.bullets = 40 /\ sig.hits = 17
    /\ suspicion = 35

(***************************************************************************)
(* extract_players, analyzer.py 129-151: the players are the attacker and  *)
(* victim ids of the kill rows.                                            *)
(***************************************************************************)
\* 135-137: the cell is not null, not empty and does not print as "0"
IsPlayerId(id) == id # NullId /\ id # "" /\ id # "0"
\* mutant: only the attackers of the kill rows listed
extract_players_AttackersOnly ==
    { id \in { kills_df[i].attacker_steamid : i \in DOMAIN kills_df } : IsPlayerId(id) }
extract_players ==
    { id \in { kills_df[i].attacker_steamid : i \in DOMAIN kills_df }
             \cup { kills_df[i].user_steamid : i \in DOMAIN kills_df } :
        IsPlayerId(id) }

(***************************************************************************)
(* compute_anticheat_metrics, analyzer.py 287-474: the signals of one      *)
(* player.  Times are kept in ticks (ms = ticks / tick_rate * 1000) and    *)
(* rates as pairs of counts, so that means and thresholds are exact.       *)
(***************************************************************************)
RECURSIVE SumSeq(_, _)
SumSeq(s, i) == IF i > Len(s) THEN 0 ELSE s[i] + SumSeq(s, i + 1)
RECURSIVE Concat(_, _)
Concat(ss, i) == IF i > Len(ss) THEN <<>> ELSE ss[i] \o Concat(ss, i + 1)

\* mutant: the player's own death counted as a kill
PlayerKills_WithSelf(sid) ==
    LET Mine(k) == k.attacker_steamid = sid
    IN SelectSeq(kills_df, Mine)
\* 293-296
PlayerKills(sid) ==
    LET Mine(k) == k.attacker_steamid = sid /\ k.user_steamid # sid
    IN SelectSeq(kills_df, Mine)

\* 299: max(3, int(3 * tick_rate / 64))
MinReactionTicks(rate) == Max(3, (3 * rate) \div 64)
\* 318: int(256 * tick_rate / 64)
ReactionWindow(rate) == (256 * rate) \div 64
\* 303-306
RoundHurtsTaken(sid, r) ==
    SortByTick(hurts_df, { i \in DOMAIN hurts_df :
                             /\ hurts_df[i].user_steamid = sid
                             /\ InRound(hurts_df[i].tick, r) })
\* 314-319: the rows in file order
Retaliation(sid, attacker_sid, hurt_tick, rate) ==
    LET Back(h) == /\ h.attacker_steamid = sid
                   /\ h.user_steamid = attacker_sid
                   /\ h.tick > hurt_tick
                   /\ h.tick <= hurt_tick + ReactionWindow(rate)
    IN SelectSeq(hurts_df, Back)
\* 308-325: the loop over the round's rows, seen_attackers carried along
RECURSIVE ReactionScan(_, _, _, _, _)
ReactionScan(sid, rows, i, seen_attackers, rate) ==
    IF i > Len(rows) THEN <<>>
    ELSE LET attacker_sid == Str(rows[i].attacker_steamid)
             hurt_tick == rows[i].tick
             retaliation == Retaliation(sid, attacker_sid, hurt_tick, rate)
         IN IF attacker_sid \in seen_attackers
            THEN ReactionScan(sid, rows, i + 1, seen_attackers, rate)
            ELSE IF /\ Len(retaliation) > 0
                    /\ retaliation[1].tick - hurt_tick >= MinReactionTicks(rate)
            THEN <<retaliation[1].tick - hurt_tick>>
                 \o ReactionScan(sid, rows, i + 1,
                                 seen_attackers \cup {attacker_sid}, rate)
            ELSE ReactionScan(sid, rows, i + 1, seen_attackers, rate)
\* 300-325: reaction_times, in ticks
ReactionTimes(sid, rs, rate) ==
    Concat([ i \in DOMAIN rs |->
               ReactionScan(sid, RoundHurtsTaken(sid, rs[i]), 1, {}, rate) ], 1)

\* 331-341: ttd_values, in ticks
RoundTtd(sid, r) ==
    LET ts == { hurts_df[i].tick : i \in { j \in DOMAIN hurts_df :
                    /\ hurts_df[j].attacker_steamid = sid
                    /\ InRound(hurts_df[j].tick, r) } }
    IN IF ts = {} THEN <<>> ELSE <<MinOf(ts) - r.start_tick>>
TtdValues(sid, rs) == Concat([ i \in DOMAIN rs |-> RoundTtd(sid, rs[i]) ], 1)

\* 346, 360
HsKills(ks) == LET Hs(k) == k.headshot IN SelectSeq(ks, Hs)
SmokeKills(ks) == LET Sm(k) == k.thrusmoke IN SelectSeq(ks, Sm)
\* 349-356: per round with kills, the headshots and the kills
RoundHs(sid, r) ==
    LET In(k) == InRound(k.tick, r)
        rk == SelectSeq(PlayerKills(sid), In)
    IN IF Len(rk) > 0 THEN <<[hs |-> Len(HsKills(rk)), kills |-> Len(rk)]>> ELSE <<>>
HsPerRound(sid, rs) == Concat([ i \in DOMAIN rs |-> RoundHs(sid, rs[i]) ], 1)

\* 364
PlayerBullets(sid) ==
    LET Mine(b) == b.user_steamid = sid IN SelectSeq(bullets_df, Mine)
\* 367-370: the weapon names the hit filter drops (substring match, a missing
\* name is kept)
HitWeapons == {"ak47", "knife_t", "hegrenade", "inferno"}
ExcludedHitWeapon(w) == w \in {"knife_t", "hegrenade", "inferno"}
\* 365-371
PlayerHurts(sid) ==
    LET Mine(h) == h.attacker_steamid = sid /\ ~ExcludedHitWeapon(h.weapon)
    IN SelectSeq(hurts_df, Mine)

\* 357: np.var of the per-round percentages 100 * hs / kills, as the fraction
\* num / den: with D the product of the kill counts and X_i = 100 * hs_i * D /
\* kills_i, the variance is (n * sum X_i^2 - (sum X_i)^2) / (n * D)^2
RECURSIVE KillsProduct(_, _)
KillsProduct(hpr, i) == IF i > Len(hpr) THEN 1 ELSE hpr[i].kills * KillsProduct(hpr, i + 1)
HsVariance(hpr) ==
    IF Len(hpr) <= 1 THEN None
    ELSE LET n == Len(hpr)
             D == KillsProduct(hpr, 1)
             X == [ i \in DOMAIN hpr |-> (100 * hpr[i].hs * D) \div hpr[i].kills ]
             X2 == [ i \in DOMAIN hpr |-> X[i] * X[i] ]
         IN Some([num |-> n * SumSeq(X2, 1) - SumSeq(X, 1) * SumSeq(X, 1),
                  den |-> n * D * n * D])

\* 379-382: analysis_ticks
AnalysisTicks(kill_ticks) ==
    UNION { Max(0, kill_ticks[i] - 8)..(kill_ticks[i] + 1) : i \in DOMAIN kill_ticks }
\* 385-386: the player's row of the pitch/yaw table at tick t
AngleRow(sid, t) == IF sid \in Players THEN TracePose(sid, t) ELSE None
\* 389-392: the ticks of pre_kill, ascending
PreKill(sid, kt, ticks) ==
    SetToSorted({ t \in ticks : t >= kt - 8 /\ t <= kt /\ ~IsNone(AngleRow(sid, t)) })
\* 398-402: every row of the trace has the same pitch, so dp = 0 and
\* sqrt(dp^2 + dy^2) = dy
SnapDelta(p, q) ==
    LET dy == Abs(p.yaw - q.yaw)
    IN IF dy > 180 THEN 360 - dy ELSE dy
\* 396-403: max_delta over the consecutive rows
MaxDelta(sid, pre) ==
    MaxOf({0} \cup { SnapDelta(Val(AngleRow(sid, pre[j])), Val(AngleRow(sid, pre[j - 1]))) :
                       j \in 2..Len(pre) })
\* 388-404
RECURSIVE SnapLoop(_, _, _, _)
SnapLoop(sid, kill_ticks, i, ticks) ==
    IF i > Len(kill_ticks) THEN <<>>
    ELSE LET pre == PreKill(sid, kill_ticks[i], ticks)
         IN (IF Len(pre) >= 2 THEN <<MaxDelta(sid, pre)>> ELSE <<>>)
            \o SnapLoop(sid, kill_ticks, i + 1, ticks)
\* 377
SnapKillTicks(sid) ==
    LET ks == PlayerKills(sid) IN [ i \in DOMAIN ks |-> ks[i].tick ]
\* 375-406: the query is made when there are kill ticks; when it raises, the
\* list stays empty
AngleOutcomes == {"rows", "raises"}
SnapScores(sid, outcome) ==
    LET kill_ticks == SnapKillTicks(sid)
    IN IF kill_ticks = <<>> \/ outcome = "raises" THEN <<>>
       ELSE SnapLoop(sid, kill_ticks, 1, AnalysisTicks(kill_ticks))

\* floor of the mean of ts, in ms: x < n iff floor(x) < n for an integer n
FloorMeanMs(ts, rate) == (SumSeq(ts, 1) * 1000) \div (Len(ts) * rate)
\* the values the rule table reads (327-328, 346-347, 357, 360-361, 364-372, 409)
Signals(sid, rs, rate, outcome) ==
    LET reaction_times == ReactionTimes(sid, rs, rate)
        player_kills == PlayerKills(sid)
        hs_variance == HsVariance(HsPerRound(sid, rs))
        snap_scores == SnapScores(sid, outcome)
    IN [avg_reaction |-> IF reaction_times = <<>> THEN None
                         ELSE Some(FloorMeanMs(reaction_times, rate)),
        min_reaction |-> IF reaction_times = <<>> THEN None
                         ELSE Some((MinOf(Range(reaction_times)) * 1000) \div rate),
        kills |-> Len(player_kills),
        hs |-> Len(HsKills(player_kills)),
        smoke |-> Len(SmokeKills(player_kills)),
        bullets |-> Len(PlayerBullets(sid)),
        hits |-> Len(PlayerHurts(sid)),
        max_snap |-> IF snap_scores = <<>> THEN None
                     ELSE Some(MaxOf(Range(snap_scores))),
        hs_variance |-> IF IsNone(hs_variance) THEN None
                        ELSE Some(Val(hs_variance).num \div Val(hs_variance).den)]

\* 454-472.  A value rounded to one decimal is held in tenths; "round(x, 1)
\* if x else None" gives None for a missing x and for x = 0.
Tenths(num, den) == RoundHalfEven(num * 10, den)
TenthsIfTruthy(num, den) == IF num = 0 THEN None ELSE Some(Tenths(num, den))
FirstFifty(s) == SubSeq(s, 1, Min(50, Len(s)))
Percent(part, whole) == IF whole > 0 THEN Tenths(part * 100, whole) ELSE 0
Profile(sid, rs, rate, outcome) ==
    LET s == Signals(sid, rs, rate, outcome)
        reaction_times == ReactionTimes(sid, rs, rate)
        ttd_values == TtdValues(sid, rs)
        hs_variance == HsVariance(HsPerRound(sid, rs))
        snap_scores == SnapScores(sid, outcome)
    IN [steamid |-> sid,
        suspicion_score |-> SuspicionScore(s),
        flags |-> FlagList(s),
        reaction_times |-> FirstFifty(reaction_times),
        avg_reaction_ms |->
            IF reaction_times = <<>> THEN None
            ELSE TenthsIfTruthy(SumSeq(reaction_times, 1) * 1000,
                                Len(reaction_times) * rate),
        min_reaction_ms |->
            IF reaction_times = <<>> THEN None
            ELSE TenthsIfTruthy(MinOf(Range(reaction_times)) * 1000, rate),
        ttd_values_ms |-> [ i \in DOMAIN ttd_values |-> TicksToMs(ttd_values[i], rate) ],
        avg_ttd_ms |->
            IF ttd_values = <<>> \/ SumSeq(ttd_values, 1) = 0 THEN None
            ELSE Some(RoundHalfEven(SumSeq(ttd_values, 1) * 1000, Len(ttd_values) * rate)),
        hs_rate |-> Percent(s.hs, s.kills),
        hs_variance |->
            IF IsNone(hs_variance) THEN None
            ELSE TenthsIfTruthy(Val(hs_variance).num, Val(hs_variance).den),
        accuracy |-> Percent(s.hits, s.bullets),
        smoke_kills |-> s.smoke,
        smoke_kill_rate |-> Percent(s.smoke, s.kills),
        snap_scores |-> [ i \in DOMAIN FirstFifty(snap_scores) |-> snap_scores[i] * 10 ],
        avg_snap_angle |->
            IF snap_scores = <<>> THEN None
            ELSE TenthsIfTruthy(SumSeq(snap_scores, 1), Len(snap_scores)),
        max_snap_angle |->
            IF snap_scores = <<>> THEN None
            ELSE TenthsIfTruthy(MaxOf(Range(snap_scores)), 1)]

compute_anticheat_metrics(ps, rs, rate, outcome) ==
    [ sid \in ps |-> Profile(sid, rs, rate, outcome) ]

\* parse_demo_anticheat, 500 and 506-507
ComputeMetrics ==
    /\ pc = "engagements"
    /\ anticheat' = compute_anticheat_metrics(extract_players, rounds, tick_rate, angle_data)
    /\ pc' = "metrics"
    /\ UNCHANGED cacheVars
    /\ UNCHANGED <<tick_rate, freeze_end_df, ended_df, score_data, rounds,
                   hurts_df, fires_df, trace, contacts, engagements,
                   kills_df, bullets_df, angle_data, pose_data, team_data,
                   result, sig, suspicion, flags>>

(***************************************************************************)
(* SpecMetrics: the run up to compute_anticheat_metrics over two closed    *)
(* rounds, [10, 1000] and [2000, 3000].                                    *)
(*   kill family:   "A" kills "B" up to MaxRoundKills times per round,     *)
(*                  some by headshot or through smoke; one more kill row   *)
(*                  may be a suicide, a kill by "B" or a kill without a    *)
(*                  player as attacker; "A"'s view changes around the      *)
(*                  first kill, and the pitch/yaw query may raise.         *)
(*   damage family: "A" damages "B" at tick 100, "B" damages "A" back up   *)
(*                  to MaxRetaliations times and again in the second       *)
(*                  round, and fires bullets; "B" has at most one kill.    *)
(***************************************************************************)
MaxRoundKills == 4
MaxRetaliations == 2

KillRow(t, a, u, hs, sm) ==
    [tick |-> t, attacker_steamid |-> a, user_steamid |-> u,
     headshot |-> hs, thrusmoke |-> sm]
BulletRow(u) == [user_steamid |-> u]
KillBurst(a, u, start, n, nhs, nsm) ==
    [ i \in 1..n |-> KillRow(start + 20 * (i - 1), a, u, i <= nhs, i <= nsm) ]
HurtBurst(a, u, start, n, w) ==
    [ i \in 1..n |-> [HurtRow(start + i - 1, a, u) EXCEPT !.weapon = w] ]
BulletBurst(u, n) == [ i \in 1..n |-> BulletRow(u) ]

RoundKillCounts ==
    { [kills |-> k, hs |-> h, smoke |-> s] :
        k \in {0, 1, MaxRoundKills}, h \in 0..MaxRoundKills, s \in 0..MaxRoundKills }
ExtraKills == {
    <<>>,
    <<KillRow(500, "B", "B", TRUE, FALSE)>>,
    <<KillRow(500, "B", "A", TRUE, TRUE)>>,
    <<KillRow(500, NullId, "B", FALSE, FALSE)>>,
    <<KillRow(500, "0", "A", FALSE, FALSE)>> }
SnapTraces == {
    Steady,
    [kind |-> "away", lo |-> 100, hi |-> 100],
    [kind |-> "away", lo |-> 0, hi |-> 95],
    [kind |-> "absent", lo |-> 0, hi |-> 99],
    [kind |-> "absent", lo |-> 0, hi |-> 5000] }

InitMetricsKills ==
    /\ tick_rate = 64
    /\ \E c1 \in RoundKillCounts, c2 \in RoundKillCounts, x \in ExtraKills :
          /\ c1.hs \in {0, c1.kills - 1, c1.kills} /\ c1.smoke \in {0, c1.kills - 1}
          /\ c2.hs \in {0, c2.kills - 1, c2.kills} /\ c2.smoke \in {0, c2.kills - 1}
          /\ kills_df = KillBurst("A", "B", 100, c1.kills, c1.hs, c1.smoke)
                        \o x
                        \o KillBurst("A", "B", 2100, c2.kills, c2.hs, c2.smoke)
    /\ hurts_df = <<HurtRow(100, "A", "B")>>
    /\ bullets_df = <<>>
    /\ \E ca \in SnapTraces : trace = [sid \in Players |-> IF sid = "A" THEN ca ELSE Steady]
    /\ angle_data \in AngleOutcomes

RetaliationGaps == {2, 3, 8, 12, 257}
DamageKills == {
    <<KillRow(900, "A", "B", FALSE, FALSE)>>,
    <<KillRow(900, "B", "B", TRUE, FALSE)>>,
    <<KillRow(900, "B", "A", TRUE, FALSE)>> }
HitBursts ==
    { HurtBurst("B", "A", 2100, n, w) : n \in {0, 13, 17}, w \in {"ak47", "knife_t"} }
BulletCounts == {0, 29, 30}

InitMetricsDamage ==
    /\ tick_rate \in {64, 128}
    /\ kills_df \in DamageKills
    /\ \E back \in SeqsUpTo({ HurtRow(100 + g, "B", "A") : g \in RetaliationGaps },
                            MaxRetaliations),
          burst \in HitBursts :
          hurts_df = <<HurtRow(100, "A", "B")>> \o back \o burst
    /\ \E n \in BulletCounts : bullets_df = BulletBurst("B", n)
    /\ trace = [sid \in Players |-> Steady]
    /\ angle_data = "rows"

InitMetrics ==
    /\ NoCacheUse
    /\ pc = "start"
    /\ score_data = "rows"
    /\ freeze_end_df = <<10, 2000>> /\ ended_df = <<1000, 3000>>
    /\ fires_df = <<>>
    /\ rounds = <<>> /\ contacts = <<>> /\ engagements = <<>>
    /\ pose_data = "rows" /\ team_data = "rows"
    /\ anticheat = <<>> /\ result = None
    /\ sig = NoSignal /\ suspicion = 0 /\ flags = <<>>
    /\ InitMetricsKills \/ InitMetricsDamage

NextMetrics == BuildRounds \/ ComputeEngagements \/ ComputeMetrics
SpecMetrics == InitMetrics /\ [][NextMetrics]_vars

MetricsDone == pc = "metrics"
ProfileSet == { anticheat[sid] : sid \in DOMAIN anticheat }
C9_ZeroKills(sid) ==
    \A i \in DOMAIN kills_df :
        ~(kills_df[i].attacker_steamid = sid /\ kills_df[i].user_steamid # sid)
C9_HasBullets(sid) == \E i \in DOMAIN bullets_df : bullets_df[i].user_steamid = sid
C9_DealtDamage(sid) == \E i \in DOMAIN hurts_df : hurts_df[i].attacker_steamid = sid
ReactionFlags == {"Inhuman avg reaction", "Very fast avg reaction", "Suspicious min reaction"}
AccuracyFlags == {"Abnormal accuracy", "High accuracy"}
KillFlags == {"Abnormal HS rate", "High HS rate", "Suspicious smoke kills",
              "Aim snap detected", "Unnatural HS consistency"}

C14_Samples(sid) ==
    [reaction |-> ReactionTimes(sid, rounds, tick_rate),
     ttd |-> TtdValues(sid, rounds),
     hs_per_round |-> HsPerRound(sid, rounds),
     snap |-> SnapScores(sid, angle_data)]
C14_NullOnlyWithoutSample ==
    MetricsDone =>
        \A sid \in DOMAIN anticheat :
            LET p == anticheat[sid]
                s == C14_Samples(sid)
            IN /\ IsNone(p.avg_reaction_ms) <=> s.reaction = <<>>
               /\ IsNone(p.min_reaction_ms) <=> s.reaction = <<>>
               /\ IsNone(p.avg_ttd_ms) <=> s.ttd = <<>>
               /\ IsNone(p.hs_variance) <=> Len(s.hs_per_round) < 2
               /\ IsNone(p.avg_snap_angle) <=> s.snap = <<>>
               /\ IsNone(p.max_snap_angle) <=> s.snap = <<>>

(***************************************************************************)
(* parse_demo_anticheat, analyzer.py 479-546: the rest of the run.         *)
(***************************************************************************)
FIRST_ROUND_TICK == 5000
\* 140-149: the team query at tick 5000 holds a row of each player the trace
\* has there, "A" in team 3 and "B" in team 2; when it raises every player
\* gets "?", and so does a player without a row (534: info.get("team", "?"))
Team(sid, outcome) ==
    IF outcome = "raises" THEN "?"
    ELSE IF sid \in Players /\ ~IsNone(TracePose(sid, FIRST_ROUND_TICK))
    THEN (IF sid = "A" THEN "CT" ELSE "T")
    ELSE "?"

\* 511: engagements.get(steam_id, [])
PlayerEngs(sid) == LET Mine(e) == e.attacker = sid IN SelectSeq(engagements, Mine)
\* 512-514: the values that are not None, in order
Present(es, field) ==
    Concat([ i \in DOMAIN es |-> es[i][field] ], 1)
\* round(float(np.mean(xs))) if xs else None
RoundedMean(xs) == IF xs = <<>> THEN None ELSE Some(RoundHalfEven(SumSeq(xs, 1), Len(xs)))
\* 510-521
Enrich(ac) ==
    LET player_engs == PlayerEngs(ac.steamid)
        stf == Present(player_engs, "sight_to_fire_ms")
        std == [ i \in DOMAIN player_engs |-> player_engs[i].sight_to_damage_ms ]
        ftd == Present(player_engs, "fire_to_damage_ms")
    IN [fov_sight_to_fire |-> FirstFifty(stf),
        fov_avg_sight_to_fire |-> RoundedMean(stf),
        fov_min_sight_to_fire |-> IF stf = <<>> THEN None ELSE Some(MinOf(Range(stf))),
        fov_avg_sight_to_damage |-> RoundedMean(std),
        fov_avg_fire_to_damage |-> RoundedMean(ftd),
        engagement_count |-> Len(player_engs)] @@ ac

\* 525-538; kd, rounded to two decimals, is held in hundredths
BasicStats(sid) ==
    LET Died(k) == k.user_steamid = sid
        k == Len(PlayerKills(sid))
        d == Len(SelectSeq(kills_df, Died))
    IN [team |-> Team(sid, team_data),
        kills |-> k,
        deaths |-> d,
        kd |-> IF d > 0 THEN RoundHalfEven(k * 100, d) ELSE k * 100]

\* 509-546
ReturnResult ==
    /\ pc = "metrics"
    /\ anticheat' = [ sid \in DOMAIN anticheat |-> Enrich(anticheat[sid]) ]
    /\ result' = Some([tick_rate |-> tick_rate,
                       total_rounds |-> Len(rounds),
                       players |-> [ sid \in extract_players |-> BasicStats(sid) ],
                       anticheat |-> anticheat'])
    /\ pc' = "done"
    /\ UNCHANGED cacheVars
    /\ UNCHANGED <<tick_rate, freeze_end_df, ended_df, score_data, rounds,
                   hurts_df, fires_df, trace, contacts, engagements,
                   kills_df, bullets_df, angle_data, pose_data, team_data,
                   sig, suspicion, flags>>

(***************************************************************************)
(* SpecRun: the whole of parse_demo_anticheat over small tables: no round  *)
(* or one round [10, 1000]; damage rows before the round, of a player on   *)
(* itself, or inside the round; kill tables without a player, with one     *)
(* kill and with eight headshot kills; every outcome of the four per-tick  *)
(* queries; "A" steady, absent or dead throughout.                         *)
(***************************************************************************)
RunLayouts == {
    [freeze |-> <<>>,   ended |-> <<>>],
    [freeze |-> <<>>,   ended |-> <<1000>>],
    [freeze |-> <<10>>, ended |-> <<1000>>] }
RunHurts == {
    <<>>,
    <<HurtRow(5, "A", "B")>>,
    <<HurtRow(100, "A", "A")>>,
    <<HurtRow(100, "A", "B")>>,
    <<HurtRow(100, "A", "B"), HurtRow(103, "B", "A")>> }
RunKills == {
    <<>>,
    <<KillRow(500, NullId, "0", FALSE, FALSE)>>,
    KillBurst("A", "B", 100, 1, 1, 0),
    KillBurst("A", "B", 100, 8, 8, 3) }
RunFires == { <<>>, <<FireRow(99, "A", "ak47")>> }
RunTraces == {
    Steady,
    [kind |-> "absent", lo |-> 0, hi |-> 5000],
    [kind |-> "dead", lo |-> 0, hi |-> 5000] }

InitRun ==
    /\ NoCacheUse
    /\ pc = "start"
    /\ tick_rate = 64
    /\ \E l \in RunLayouts : freeze_end_df = l.freeze /\ ended_df = l.ended
    /\ hurts_df \in RunHurts
    /\ kills_df \in RunKills
    /\ fires_df \in RunFires
    /\ bullets_df = <<>>
    /\ \E ca \in RunTraces : trace = [sid \in Players |-> IF sid = "A" THEN ca ELSE Steady]
    /\ score_data \in ScoreOutcomes
    /\ angle_data \in AngleOutcomes
    /\ pose_data \in QueryOutcomes
    /\ team_data \in QueryOutcomes
    /\ rounds = <<>> /\ contacts = <<>> /\ engagements = <<>>
    /\ anticheat = <<>> /\ result = None
    /\ sig = NoSignal /\ suspicion = 0 /\ flags = <<>>

NextRun == BuildRounds \/ ComputeEngagements \/ ComputeMetrics \/ ReturnResult
SpecRun == InitRun /\ [][NextRun]_vars

\* the run is over: it returned or an exception left it
RunEnded == pc \in {"done", "raised"}
\* the ids of the kill rows that name a player
C12_KillPlayers ==
    { id \in { kills_df[i].attacker_steamid : i \in DOMAIN kills_df }
             \cup { kills_df[i].user_steamid : i \in DOMAIN kills_df } :
        id \notin {NullId, "", "0"} }
C12_Anomaly == rounds = <<>> \/ contacts = <<>>

\* C12 as stated: with no rounds or no contacts the run returns a result
\* whose engagement map and anticheat map are both empty, whatever the kill
\* table holds.
C12_AnomalyGivesEmptyMaps ==
    (RunEnded /\ C12_Anomaly) =>
        /\ pc = "done" /\ ~IsNone(result)
        /\ engagements = <<>>
        /\ DOMAIN Val(result).anticheat = {}

\* C12, amended: with no rounds or no contacts the run returns a result with
\* total_rounds, one basic-stats entry and one profile per player of the kill
\* table; the engagement map is empty, every profile has engagement_count 0
\* and no FOV value, and without rounds its reaction, time-to-damage and
\* headshot-variance values are empty.
C12_AnomalyGivesWellFormedResult ==
    (RunEnded /\ C12_Anomaly) =>
        /\ pc = "done" /\ ~IsNone(result)
        /\ engagements = <<>>
        /\ Val(result).total_rounds = Len(rounds)
        /\ DOMAIN Val(result).players = C12_KillPlayers
        /\ DOMAIN Val(result).anticheat = C12_KillPlayers
        /\ \A sid \in C12_KillPlayers :
              LET p == Val(result).anticheat[sid]
              IN /\ p.engagement_count = 0
                 /\ p.fov_sight_to_fire = <<>>
                 /\ IsNone(p.fov_avg_sight_to_fire) /\ IsNone(p.fov_min_sight_to_fire)
                 /\ IsNone(p.fov_avg_sight_to_damage) /\ IsNone(p.fov_avg_fire_to_damage)
                 /\ p.suspicion_score \in 0..100
                 /\ rounds = <<>> =>
                       /\ p.reaction_times = <<>> /\ p.ttd_values_ms = <<>>
                       /\ IsNone(p.avg_ttd_ms) /\ IsNone(p.hs_variance)

\* no rounds, eight headshot kills of "A": the result holds the profiles of
\* "A" and "B", and "A" has the points of the headshot-rate rule
C12_Witness ==
    /\ pc = "done"
    /\ rounds = <<>> /\ engagements = <<>>
    /\ DOMAIN Val(result).anticheat = {"A", "B"}
    /\ Val(result).anticheat["A"].hs_rate = 1000
    /\ Val(result).anticheat["A"].suspicion_score >= 25

\* C13: no failure of a per-tick query aborts the run: it ends with a result.
C13_NoQueryFailureAborts ==
    RunEnded => (pc = "done" /\ ~IsNone(result))

(***************************************************************************)
(* SpecCache: the callers of Callers make up to MaxCalls calls of          *)
(* get_cached or put_cache in all, for the same demo file and the same     *)
(* result, their steps interleaved in every order.                         *)
(***************************************************************************)
InitCache ==
    /\ NoCacheUse
    /\ pc = "cache"
    /\ tick_rate = 64
    /\ freeze_end_df = <<>> /\ ended_df = <<>> /\ score_data = "rows" /\ rounds = <<>>
    /\ NoEngagementInput
    /\ NoMetricsInput
    /\ sig = NoSignal /\ suspicion = 0 /\ flags = <<>>

NextCache ==
    \E p \in Callers :
        \/ GetExists(p) \/ GetOpen(p) \/ GetRead(p) \/ GetLoad(p)
        \/ PutOpen(p) \/ PutWrite(p) \/ PutClose(p)
SpecCache == InitCache /\ [][NextCache]_vars

PutsFinished == \A p \in Callers : calls[p].pc # "put_write"

\* C15: under every interleaving of get_cached and put_cache calls for the
\* same file and result, each get_cached returns None or the complete
\* result, and once no put_cache is in progress an existing cache entry
\* holds the complete result.
C15_NeverCorrupted ==
    /\ \A p \in Callers : calls[p].ret \in {None, Some(CachedResult)}
    /\ (PutsFinished /\ ~IsNone(cache_file)) =>
          /\ Val(cache_file) = json_dump(CachedResult)
          /\ json_load(Val(cache_file)) = [raised |-> FALSE, value |-> CachedResult]

\* two put_cache calls overlapped: one truncated the entry under the other,
\* which left a gap; a get_cached took the gap in and returned None; all
\* calls have returned and the entry is complete
C15_Witness ==
    /\ PutsFinished
    /\ cache_file = Some(json_dump(CachedResult))
    /\ \E p \in Callers :
          /\ calls[p].pc = "idle" /\ calls[p].ret = None
          /\ \E i \in DOMAIN calls[p].buf : calls[p].buf[i] = NUL
====
